---- MODULE Spec2Model ----
(***************************************************************************)
(* GLTriangleBatch (src/src/GLTriangleBatch.cpp): the vertex-dedup indexer *)
(* (BeginMesh / AddTriangle / End), the persistence codec (SaveMesh /      *)
(* LoadMesh) and the object's lifetime, as one state machine.              *)
(*                                                                         *)
(* Floats are modelled as integers: positions and texture coordinates are  *)
(* small integers, epsilon is an integer, and unit normals have length 2   *)
(* (fixed point), so that |a-b| < epsilon has exact, close and far cases.  *)
(***************************************************************************)
EXTENDS Integers, Sequences, FiniteSets, TLC

\* Largest capacity passed to BeginMesh.
MaxN == 4

\* Largest epsilon passed to AddTriangle.
MaxEps == 2

\* Capacity of the batches whose calls all have nCheckRange = 0.
MaxZeroN == 6

\* Capacity of the batches one triangle is added to again and again.
MaxSameN == 9

VARIABLES
    phase,                  \* position in the object's life
    nMaxIndexes,            \* capacity N_max
    nNumIndexes,            \* index count I
    nNumVerts,              \* unique-vertex count V
    bMadeStuff,             \* "End created the GPU handles"
    boundingSphereRadius,   \* r
    pIndexes, pVerts, pNorms, pTexCoords,   \* the four workspace pointers
    idx, verts, norms, texs,                \* what AddTriangle has stored in them
                                            \* (idx: also past the array's end)
    gpu,                    \* the renderer: handles and the streams uploaded
    file,                   \* the mesh file on disk
    call,                   \* the last operation and its arguments
    hist,                   \* the calls of this batch so far (profile "zero")
    profile,                \* what the AddTriangle calls of a run have in common
    src,                    \* the corner each emitted index came from (profile "full")
    saved                   \* the batch the file was saved from

vars == <<phase, nMaxIndexes, nNumIndexes, nNumVerts, bMadeStuff,
          boundingSphereRadius, pIndexes, pVerts, pNorms, pTexCoords,
          idx, verts, norms, texs, gpu, file, call, hist, profile, src, saved>>

-----------------------------------------------------------------------------
(* Inputs *)

\* The capacities BeginMesh is called with.
CapacitySet == 0..MaxN

\* The capacities of the batches whose calls all have nCheckRange = 0: room
\* for one triangle and room for two.
ZeroCapacitySet == {MaxZeroN - 3, MaxZeroN}

\* The tolerances AddTriangle is called with.
EpsSet == 0..MaxEps

\* nCheckRange: negative, zero, and at least every V.
RangeSet == {-1, 0, MaxN}

\* The corners triangles are made of.  With epsilon = 2: 1 and 2 are close
\* in every channel (their normals are equal once normalized), 2 and 3 are
\* close in position and texture coordinate, 1 and 3 have the same position
\* and differ in normal and texture coordinate.
Corners ==
    << [pos |-> <<0, 0, 0>>, nrm |-> <<0, 0, 1>>, tc |-> <<0, 0>>],
       [pos |-> <<1, 1, 0>>, nrm |-> <<0, 0, 3>>, tc |-> <<1, 0>>],
       [pos |-> <<0, 0, 0>>, nrm |-> <<0, 3, 0>>, tc |-> <<2, 1>>] >>

CornerIds == DOMAIN Corners

TriangleSet == [1..3 -> CornerIds]

-----------------------------------------------------------------------------
(* Numeric primitives *)

Abs(x) == IF x < 0 THEN 0 - x ELSE x

Min(S) == CHOOSE x \in S : \A y \in S : x <= y

Max(S) == CHOOSE x \in S : \A y \in S : x >= y

\* Floor of the square root.
ISqrt(n) == CHOOSE r \in 0..n : r * r <= n /\ (r + 1) * (r + 1) > n

LengthSquared(v) == v[1] * v[1] + v[2] * v[2] + v[3] * v[3]

\* The tolerance predicate.
m3dCloseEnough(fCandidate, fCompare, fEpsilon) ==
    Abs(fCandidate - fCompare) < fEpsilon

\* Scale to unit length (2 in this fixed point).
m3dNormalizeVector3(v) ==
    LET len == ISqrt(LengthSquared(v))
    IN  << (2 * v[1]) \div len, (2 * v[2]) \div len, (2 * v[3]) \div len >>

\* A store to a GLushort.
ToUShort(v) == v % 65536

-----------------------------------------------------------------------------
(* AddTriangle, step by step.  w is the workspace while the three corners  *)
(* are processed: [verts, norms, texs, idx, src, nV, nI].                  *)

\* if(nNumIndexes >= nMaxIndexes) return;
CapacityGuard(nI, nMax) == nI >= nMax

\* Faulty variant: the channel is kept whatever the argument.
ReleaseNever(p, argPresent) == p

\* A channel is released when its argument is null and it is still held.
ReleaseChannel(p, argPresent) ==
    IF ~argPresent /\ p # "null" THEN "null" ELSE p

\* Faulty variant: the window reaches one vertex further back.
SearchStartOneMore(nV, nCheckRange) ==
    IF nV - nCheckRange - 1 < 0 THEN 0 ELSE nV - nCheckRange - 1

\* Faulty variant: nCheckRange is not subtracted.
SearchStartNoRange(nV, nCheckRange) == nV

\* nSearchStart
SearchStart(nV, nCheckRange) ==
    IF nV - nCheckRange < 0 THEN 0 ELSE nV - nCheckRange

PosClose(a, b, eps) ==
    /\ m3dCloseEnough(a[1], b[1], eps)
    /\ m3dCloseEnough(a[2], b[2], eps)
    /\ m3dCloseEnough(a[3], b[3], eps)

TexClose(a, b, eps) ==
    /\ m3dCloseEnough(a[1], b[1], eps)
    /\ m3dCloseEnough(a[2], b[2], eps)

\* The test of stored vertex iMatch (0-based) against corner c.
VertexMatches(w, iMatch, c, eps, pN, pT) ==
    IF pT # "null" /\ pN # "null"
    THEN /\ PosClose(w.verts[iMatch + 1], c.pos, eps)
         /\ PosClose(w.norms[iMatch + 1], c.nrm, eps)
         /\ TexClose(w.texs[iMatch + 1], c.tc, eps)
    ELSE IF pN # "null"
    THEN /\ PosClose(w.verts[iMatch + 1], c.pos, eps)
         /\ PosClose(w.norms[iMatch + 1], c.nrm, eps)
    ELSE IF pT # "null"
    THEN /\ PosClose(w.verts[iMatch + 1], c.pos, eps)
         /\ TexClose(w.texs[iMatch + 1], c.tc, eps)
    ELSE PosClose(w.verts[iMatch + 1], c.pos, eps)

\* Faulty variant: the loop does not break and the last match is emitted.
LoopExitLast(hits, nSearchStart, nV) ==
    IF hits # {} THEN Max(hits)
    ELSE IF nSearchStart > nV THEN nSearchStart ELSE nV

\* Where the inner loop is left when the stored vertices hits matched.
LoopExit(hits, nSearchStart, nV) ==
    IF hits # {} THEN Min(hits)
    ELSE IF nSearchStart > nV THEN nSearchStart ELSE nV

\* Faulty variant: the loop starts one vertex late.
FindMatchSkipFirst(w, c, eps, nSearchStart, pN, pT) ==
    LoopExit({i \in (nSearchStart + 1)..(w.nV - 1) :
                  VertexMatches(w, i, c, eps, pN, pT)},
             nSearchStart, w.nV)

\* The value of iMatch when the inner loop is left: the first match, or
\* where the loop ran out (nSearchStart itself when it never ran).
FindMatch(w, c, eps, nSearchStart, pN, pT) ==
    LoopExit({i \in nSearchStart..(w.nV - 1) : VertexMatches(w, i, c, eps, pN, pT)},
             nSearchStart, w.nV)

\* Faulty variant: the index is stored one cell early, over the last one.
EmitMatchOneEarly(w, iMatch, cid) ==
    [w EXCEPT !.idx = IF @ = <<>> THEN <<65535>>
                      ELSE Append([@ EXCEPT ![Len(@)] = ToUShort(iMatch)], 65535),
              !.src = Append(@, cid),
              !.nI = @ + 1]

\* pIndexes[nNumIndexes] = iMatch; nNumIndexes++;
EmitMatch(w, iMatch, cid) ==
    [w EXCEPT !.idx = Append(@, ToUShort(iMatch)),
              !.src = Append(@, cid),
              !.nI = @ + 1]

\* No match for this vertex: may it be added to the end of the list?
CanAppend(w, iMatch, nMax) ==
    iMatch = w.nV /\ w.nV < nMax /\ w.nI < nMax

\* Faulty variant: the vertex is stored and no index is emitted for it.
AppendVertexNoIndex(w, c, cid, pN, pT) ==
    [w EXCEPT !.verts = Append(@, c.pos),
              !.norms = IF pN # "null" THEN Append(@, c.nrm) ELSE @,
              !.texs = IF pT # "null" THEN Append(@, c.tc) ELSE @,
              !.nV = @ + 1]

\* Faulty variant: nNumVerts is counted up before the index is emitted.
AppendVertexCountFirst(w, c, cid, pN, pT) ==
    [w EXCEPT !.verts = Append(@, c.pos),
              !.norms = IF pN # "null" THEN Append(@, c.nrm) ELSE @,
              !.texs = IF pT # "null" THEN Append(@, c.tc) ELSE @,
              !.idx = Append(@, ToUShort(w.nV + 1)),
              !.src = Append(@, cid),
              !.nI = @ + 1,
              !.nV = @ + 1]

\* The corner becomes vertex nNumVerts and its index is emitted.
AppendVertex(w, c, cid, pN, pT) ==
    [w EXCEPT !.verts = Append(@, c.pos),
              !.norms = IF pN # "null" THEN Append(@, c.nrm) ELSE @,
              !.texs = IF pT # "null" THEN Append(@, c.tc) ELSE @,
              !.idx = Append(@, ToUShort(w.nV)),
              !.src = Append(@, cid),
              !.nI = @ + 1,
              !.nV = @ + 1]

\* What a pass of the loop does once the inner loop has left iMatch.
AfterSearch(w, iMatch, c, cid, nMax, pN, pT) ==
    IF iMatch < w.nV THEN EmitMatch(w, iMatch, cid)
    ELSE IF CanAppend(w, iMatch, nMax) THEN AppendVertex(w, c, cid, pN, pT)
    ELSE w

\* One pass of the loop over the triangle's corners.
AddCorner(w, c, cid, eps, nSearchStart, nMax, pN, pT) ==
    AfterSearch(w, FindMatch(w, c, eps, nSearchStart, pN, pT), c, cid, nMax, pN, pT)

\* The corner as the loop sees it: normals are normalized in place first.
Arg(cid, withN) ==
    IF withN THEN [Corners[cid] EXCEPT !.nrm = m3dNormalizeVector3(@)]
    ELSE Corners[cid]

\* The three passes.
AddCorners(w0, tri, withN, eps, nSearchStart, nMax, pN, pT) ==
    AddCorner(
        AddCorner(
            AddCorner(w0, Arg(tri[1], withN), tri[1], eps, nSearchStart, nMax, pN, pT),
            Arg(tri[2], withN), tri[2], eps, nSearchStart, nMax, pN, pT),
        Arg(tri[3], withN), tri[3], eps, nSearchStart, nMax, pN, pT)

-----------------------------------------------------------------------------
(* History kept for the properties *)

\* zeroCalls: the number of AddTriangle calls of the batch, while all of them
\* had nCheckRange = 0 and I + 3 <= N_max on entry; -1 once one had not.
\* zeroDistinct: the same, while also no triangle had two corners matching
\* one another.
NoHist == [zeroCalls |-> 0, zeroDistinct |-> 0]

\* Two corners of the triangle match one another in the channels held.
SelfMatch(tri, withN, eps, pN, pT) ==
    \E i, j \in 1..3 :
        /\ i < j
        /\ PosClose(Arg(tri[i], withN).pos, Arg(tri[j], withN).pos, eps)
        /\ pN # "null" => PosClose(Arg(tri[i], withN).nrm, Arg(tri[j], withN).nrm, eps)
        /\ pT # "null" => TexClose(Arg(tri[i], withN).tc, Arg(tri[j], withN).tc, eps)

HistAfter(tri, withN, eps, range, pN, pT) ==
    LET room == nNumIndexes + 3 <= nMaxIndexes
    IN  [zeroCalls |-> IF hist.zeroCalls >= 0 /\ range = 0 /\ room
                       THEN hist.zeroCalls + 1 ELSE -1,
         zeroDistinct |-> IF /\ hist.zeroDistinct >= 0 /\ range = 0 /\ room
                             /\ ~SelfMatch(tri, withN, eps, pN, pT)
                          THEN hist.zeroDistinct + 1 ELSE -1]

\* Profile "free": every call chooses its own arguments.
FreeProfile == [kind |-> "free", eps |-> 0, n |-> FALSE, t |-> FALSE]

\* Profile "full": every call of the run has this epsilon and channel
\* presence, and nCheckRange = MaxN, which is at least V.
FullProfiles == [kind : {"full"}, eps : EpsSet, n : BOOLEAN, t : BOOLEAN]

\* Profile "zero": every call of the run has this epsilon and channel
\* presence, and nCheckRange = 0.
ZeroProfiles == [kind : {"zero"}, eps : EpsSet, n : BOOLEAN, t : BOOLEAN]

\* Profile "same": every call of the run adds this triangle with this
\* epsilon and channel presence and its own nCheckRange, and is recorded
\* with its arguments.
SameProfiles ==
    [kind : {"same"}, eps : EpsSet, n : BOOLEAN, t : BOOLEAN, tri : TriangleSet]

Allowed(withN, withT, epsilon, nCheckRange) ==
    profile.kind # "free" =>
        /\ epsilon = profile.eps
        /\ withN = profile.n
        /\ withT = profile.t
        /\ profile.kind = "full" => nCheckRange = MaxN
        /\ profile.kind = "zero" => nCheckRange = 0

Capacities ==
    IF profile.kind = "zero" THEN ZeroCapacitySet
    ELSE IF profile.kind = "same" THEN {MaxSameN}
    ELSE CapacitySet

NoSaved == [valid |-> FALSE]

NoGpu == [handles |-> FALSE, v |-> <<>>, n |-> <<>>, t |-> <<>>, i |-> <<>>]

\* The last call: the method, its channel arguments, its return value, for
\* LoadMesh the stream it read, for BeginMesh what the batch was before, and
\* for AddTriangle under profile "same" the triangle, epsilon, nCheckRange
\* and the V it was entered with.
Op(name, n, t, ret) ==
    [op |-> name, nrm |-> n, tc |-> t, ret |-> ret, stream |-> <<>>,
     prior |-> "none", args |-> <<>>]

\* What BeginMesh is called on: a fresh batch, one being assembled that
\* holds every channel, or one that has released a channel.
Prior ==
    IF phase = "constructed" THEN "fresh"
    ELSE IF pNorms = "null" \/ pTexCoords = "null" THEN "released"
    ELSE "held"

-----------------------------------------------------------------------------
(* The object *)

\* The constructor.
Constructed ==
    /\ phase = "constructed"
    /\ nMaxIndexes = 0
    /\ nNumIndexes = 0
    /\ nNumVerts = 0
    /\ bMadeStuff = FALSE
    /\ boundingSphereRadius = 0
    /\ pIndexes = "null" /\ pVerts = "null" /\ pNorms = "null" /\ pTexCoords = "null"
    /\ idx = <<>> /\ verts = <<>> /\ norms = <<>> /\ texs = <<>>
    /\ gpu = NoGpu
    /\ file = <<>>
    /\ call = Op("Construct", FALSE, FALSE, TRUE)
    /\ hist = NoHist
    /\ src = <<>>
    /\ saved = NoSaved

Init == Constructed /\ profile = FreeProfile

InitFull == Constructed /\ profile \in FullProfiles

InitZero == Constructed /\ profile \in ZeroProfiles

InitSame == Constructed /\ profile \in SameProfiles

\* Faulty variant: a channel the batch has released is not allocated again.
BeginMeshKeepReleased(nMaxVerts) ==
    /\ phase \in {"constructed", "assembling"}
    /\ phase' = "assembling"
    /\ nMaxIndexes' = nMaxVerts
    /\ nNumIndexes' = 0
    /\ nNumVerts' = 0
    /\ pIndexes' = "alloc" /\ pVerts' = "alloc" /\ pNorms' = (IF Prior = "released" THEN pNorms ELSE "alloc")
    /\ pTexCoords' = (IF Prior = "released" THEN pTexCoords ELSE "alloc")
    /\ idx' = <<>> /\ verts' = <<>> /\ norms' = <<>> /\ texs' = <<>>
    /\ call' = [Op("BeginMesh", FALSE, FALSE, TRUE) EXCEPT !.prior = Prior]
    /\ hist' = NoHist
    /\ src' = <<>>
    /\ saved' = NoSaved
    /\ UNCHANGED <<bMadeStuff, boundingSphereRadius, gpu, file, profile>>

\* BeginMesh on a batch just constructed or being assembled.
BeginMesh(nMaxVerts) ==
    /\ phase \in {"constructed", "assembling"}
    /\ phase' = "assembling"
    /\ nMaxIndexes' = nMaxVerts
    /\ nNumIndexes' = 0
    /\ nNumVerts' = 0
    /\ pIndexes' = "alloc" /\ pVerts' = "alloc" /\ pNorms' = "alloc" /\ pTexCoords' = "alloc"
    /\ idx' = <<>> /\ verts' = <<>> /\ norms' = <<>> /\ texs' = <<>>
    /\ call' = [Op("BeginMesh", FALSE, FALSE, TRUE) EXCEPT !.prior = Prior]
    /\ hist' = NoHist
    /\ src' = <<>>
    /\ saved' = NoSaved
    /\ UNCHANGED <<bMadeStuff, boundingSphereRadius, gpu, file, profile>>

\* AddTriangle when the capacity guard returns at once.
AddTriangleDropped(withN, withT) ==
    /\ phase = "assembling"
    /\ CapacityGuard(nNumIndexes, nMaxIndexes)
    /\ profile.kind # "free" => (withN = profile.n /\ withT = profile.t)
    /\ call' = Op("AddTriangle", withN, withT, TRUE)
    /\ hist' = IF profile.kind = "zero"
               THEN [zeroCalls |-> -1, zeroDistinct |-> -1] ELSE hist
    /\ UNCHANGED <<phase, nMaxIndexes, nNumIndexes, nNumVerts, bMadeStuff,
                   boundingSphereRadius, pIndexes, pVerts, pNorms, pTexCoords,
                   idx, verts, norms, texs, gpu, file, profile, src, saved>>

\* AddTriangle past the capacity guard.
AddTriangle(tri, withN, withT, epsilon, nCheckRange) ==
    /\ phase = "assembling"
    /\ ~CapacityGuard(nNumIndexes, nMaxIndexes)
    /\ Allowed(withN, withT, epsilon, nCheckRange)
    /\ profile.kind = "same" => tri = profile.tri
    /\ call' = [Op("AddTriangle", withN, withT, TRUE) EXCEPT
                    !.args = IF profile.kind = "same"
                             THEN <<tri, epsilon, nCheckRange, nNumVerts>>
                             ELSE <<>>]
    /\ LET pT == ReleaseChannel(pTexCoords, withT)
           pN == ReleaseChannel(pNorms, withN)
           w0 == [verts |-> verts,
                  norms |-> IF pN = "null" THEN <<>> ELSE norms,
                  texs |-> IF pT = "null" THEN <<>> ELSE texs,
                  idx |-> idx, src |-> src,
                  nV |-> nNumVerts, nI |-> nNumIndexes]
       IN  \E w \in {AddCorners(w0, tri, withN, epsilon,
                                SearchStart(nNumVerts, nCheckRange), nMaxIndexes, pN, pT)} :
               /\ pTexCoords' = pT
               /\ pNorms' = pN
               /\ verts' = w.verts /\ norms' = w.norms /\ texs' = w.texs
               /\ idx' = w.idx
               /\ src' = IF profile.kind = "full" THEN w.src ELSE <<>>
               /\ nNumVerts' = w.nV
               /\ nNumIndexes' = w.nI
               /\ hist' = IF profile.kind = "zero"
                          THEN HistAfter(tri, withN, epsilon, nCheckRange, pN, pT)
                          ELSE hist
    /\ UNCHANGED <<phase, nMaxIndexes, bMadeStuff, boundingSphereRadius,
                   pIndexes, pVerts, gpu, file, profile, saved>>

\* Faulty variant: the whole array is uploaded, not the cells in use.
IndexesReadCapacity(kept) ==
    [k \in 1..nMaxIndexes |-> IF k <= Len(idx) THEN idx[k] ELSE 65535]

\* What glBufferData reads from pIndexes: nNumIndexes cells, of which those
\* past the end of the array hold what was stored there or anything else.
IndexesRead(kept) ==
    [k \in 1..nNumIndexes |->
        IF k <= nMaxIndexes \/ kept THEN idx[k] ELSE 65535]

\* The bounding-sphere radius End computes.
Radius(vs) ==
    IF vs = <<>> THEN 0
    ELSE ISqrt(Max({LengthSquared(vs[k]) : k \in DOMAIN vs}))

\* Faulty variant: every channel is marked as used.
EndPointerAlways(p) == "used"

\* What End leaves in a channel's pointer.
EndPointer(p) == IF p # "null" THEN "used" ELSE "null"

End(kept) ==
    /\ phase = "assembling"
    /\ phase' = "finalized"
    /\ bMadeStuff' = TRUE
    /\ boundingSphereRadius' = Radius(verts)
    /\ gpu' = [handles |-> TRUE,
               v |-> Append(gpu.v, verts),
               n |-> IF pNorms # "null" THEN Append(gpu.n, norms) ELSE gpu.n,
               t |-> IF pTexCoords # "null" THEN Append(gpu.t, texs) ELSE gpu.t,
               i |-> Append(gpu.i, IndexesRead(kept))]
    /\ pVerts' = "used"
    /\ pNorms' = EndPointer(pNorms)
    /\ pTexCoords' = EndPointer(pTexCoords)
    /\ pIndexes' = "used"
    /\ idx' = <<>> /\ verts' = <<>> /\ norms' = <<>> /\ texs' = <<>>
    /\ call' = Op("End", FALSE, FALSE, TRUE)
    /\ hist' = NoHist
    /\ src' = <<>>
    /\ UNCHANGED <<nMaxIndexes, nNumIndexes, nNumVerts, file, profile, saved>>

\* SaveMesh(FILE*): what the stream holds afterwards.
SaveMeshStream(stream) == stream

\* SaveMesh(const char*), on a batch End has finalized:
\* fopen(szFileName, "wb") empties the file.
SaveMesh(opened) ==
    /\ phase = "finalized"
    /\ pVerts = "used"
    /\ file' = IF opened THEN SaveMeshStream(<<>>) ELSE file
    /\ call' = Op("SaveMesh", FALSE, FALSE, opened)
    /\ saved' = IF opened
                THEN [valid |-> TRUE, V |-> nNumVerts, I |-> nNumIndexes,
                      r |-> boundingSphereRadius,
                      n |-> pNorms # "null", t |-> pTexCoords # "null", gpu |-> gpu]
                ELSE saved
    /\ UNCHANGED <<phase, nMaxIndexes, nNumIndexes, nNumVerts, bMadeStuff,
                   boundingSphereRadius, pIndexes, pVerts, pNorms, pTexCoords,
                   idx, verts, norms, texs, gpu, hist, profile, src>>

-----------------------------------------------------------------------------
(* Files.  A file is a sequence of scalars in the order LoadMesh reads them: *)
(* I, V, r, I indexes, 3V position floats, 3V normal floats, 2V texture     *)
(* coordinate floats.                                                      *)

SampleFile ==
    <<3, 2, 1>> \o <<0, 1, 0>> \o <<0, 0, 0, 1, 1, 0>>
                \o <<0, 0, 2, 0, 0, 2>> \o <<0, 0, 1, 0>>

\* The sample file cut short anywhere.
SampleFiles == {SubSeq(SampleFile, 1, k) : k \in 0..Len(SampleFile)}

\* What an uninitialized scalar may hold.
GarbageSet == {0, 9}

\* A buffer of n scalars after fread from offset p: what the stream still
\* had, then what the buffer held before.
Filled(f, p, n, g) == [j \in 1..n |-> IF p + j <= Len(f) THEN f[p + j] ELSE g]

\* The stream offset after reading n scalars at p.
Advance(f, p, n) == IF p + n <= Len(f) THEN p + n ELSE Len(f)

\* Faulty variant: a partly filled buffer counts as read.
ReadSome(f, p, n) == n > 0 /\ p < Len(f)

\* fread(buf, size, 1, pFile) = 1
ReadAll(f, p, n) == n > 0 /\ p + n <= Len(f)

Vec3s(buf, n) == [j \in 1..n |-> <<buf[3 * j - 2], buf[3 * j - 1], buf[3 * j]>>]

Vec2s(buf, n) == [j \in 1..n |-> <<buf[2 * j - 1], buf[2 * j]>>]

\* LoadMesh(FILE*, bool, bool) on stream f; g fills what fread left unread.
LoadMeshStream(f, bNormals, bTexCoords, g) ==
    LET nI == IF Len(f) >= 1 THEN f[1] ELSE nNumIndexes
        nV == IF Len(f) >= 2 THEN f[2] ELSE nNumVerts
        r == IF Len(f) >= 3 THEN f[3] ELSE boundingSphereRadius
        p0 == Advance(f, 0, 3)
        indexes == Filled(f, p0, nI, g)
        p1 == Advance(f, p0, nI)
        vs == Vec3s(Filled(f, p1, 3 * nV, g), nV)
        p2 == Advance(f, p1, 3 * nV)
        gotN == bNormals /\ ReadAll(f, p2, 3 * nV)
        ns == Vec3s(Filled(f, p2, 3 * nV, g), nV)
        p3 == IF bNormals THEN Advance(f, p2, 3 * nV) ELSE p2
        gotT == bTexCoords /\ ReadAll(f, p3, 2 * nV)
        ts == Vec2s(Filled(f, p3, 2 * nV, g), nV)
        pN == IF bNormals THEN (IF gotN THEN "alloc" ELSE "null") ELSE pNorms
        pT == IF bTexCoords THEN (IF gotT THEN "alloc" ELSE "null") ELSE pTexCoords
    IN  /\ nNumIndexes' = nI
        /\ nNumVerts' = nV
        /\ boundingSphereRadius' = r
        /\ gpu' = [handles |-> TRUE,
                   v |-> Append(gpu.v, vs),
                   n |-> IF pN # "null" THEN Append(gpu.n, ns) ELSE gpu.n,
                   t |-> IF pT # "null" THEN Append(gpu.t, ts) ELSE gpu.t,
                   i |-> Append(gpu.i, indexes)]
        /\ pVerts' = "freed"
        /\ pNorms' = IF pN # "null" THEN "freed" ELSE "null"
        /\ pTexCoords' = IF pT # "null" THEN "freed" ELSE "null"
        /\ pIndexes' = "freed"

\* The files LoadMesh is called on: what SaveMesh wrote, when it has written,
\* and otherwise the file on disk or a sample file.
FileSet == IF saved.valid THEN {file} ELSE SampleFiles \cup {file}

\* LoadMesh(const char*, bool, bool) on a batch just constructed, when the
\* file cannot be opened.
LoadMeshNoFile ==
    /\ phase = "constructed"
    /\ call' = Op("LoadMesh", FALSE, FALSE, FALSE)
    /\ UNCHANGED <<phase, nMaxIndexes, nNumIndexes, nNumVerts, bMadeStuff,
                   boundingSphereRadius, pIndexes, pVerts, pNorms, pTexCoords,
                   idx, verts, norms, texs, gpu, file, hist, profile, src, saved>>

\* LoadMesh(const char*, bool, bool) on a batch just constructed.
LoadMesh(f, bNormals, bTexCoords, g) ==
    /\ phase = "constructed"
    /\ phase' = "finalized"
    /\ call' = [Op("LoadMesh", bNormals, bTexCoords, TRUE) EXCEPT !.stream = f]
    /\ LoadMeshStream(f, bNormals, bTexCoords, g)
    /\ UNCHANGED <<nMaxIndexes, bMadeStuff, idx, verts, norms, texs,
                   file, hist, profile, src, saved>>

-----------------------------------------------------------------------------
(* The end of the object, and the next one *)

\* delete [] p, unless p is the NOT_VALID_BUT_USED mark.  A null pointer is
\* left alone; a pointer whose array has been given back already is given
\* back a second time, which the state "twice" records whatever the heap
\* then does.
Deleted(p) ==
    IF p = "alloc" THEN "freed"
    ELSE IF p = "freed" THEN "twice"
    ELSE p

\* The destructor.  Nothing of the object is left but what it did not give
\* back: the GPU handles when bMadeStuff is false.
Destroy ==
    /\ phase \in {"constructed", "assembling", "finalized"}
    /\ phase' = "destroyed"
    /\ pIndexes' = Deleted(pIndexes)
    /\ pVerts' = Deleted(pVerts)
    /\ pNorms' = Deleted(pNorms)
    /\ pTexCoords' = Deleted(pTexCoords)
    /\ idx' = <<>> /\ verts' = <<>> /\ norms' = <<>> /\ texs' = <<>>
    /\ gpu' = [NoGpu EXCEPT !.handles = gpu.handles /\ ~bMadeStuff]
    /\ nMaxIndexes' = 0 /\ nNumIndexes' = 0 /\ nNumVerts' = 0
    /\ bMadeStuff' = FALSE
    /\ boundingSphereRadius' = 0
    /\ call' = Op("Destroy", FALSE, FALSE, TRUE)
    /\ hist' = NoHist
    /\ src' = <<>>
    /\ UNCHANGED <<file, profile, saved>>

\* The constructor, for the next batch object.
Construct ==
    /\ phase = "destroyed"
    /\ phase' = "constructed"
    /\ nMaxIndexes' = 0
    /\ nNumIndexes' = 0
    /\ nNumVerts' = 0
    /\ bMadeStuff' = FALSE
    /\ boundingSphereRadius' = 0
    /\ pIndexes' = "null" /\ pVerts' = "null" /\ pNorms' = "null" /\ pTexCoords' = "null"
    /\ gpu' = NoGpu
    /\ call' = Op("Construct", FALSE, FALSE, TRUE)
    /\ UNCHANGED <<idx, verts, norms, texs, file, hist, profile, src, saved>>

Next ==
    \/ \E n \in Capacities : BeginMesh(n)
    \/ \E withN, withT \in BOOLEAN : AddTriangleDropped(withN, withT)
    \/ \E tri \in TriangleSet, withN, withT \in BOOLEAN, e \in EpsSet, r \in RangeSet :
          AddTriangle(tri, withN, withT, e, r)
    \/ \E kept \in BOOLEAN : End(kept)
    \/ \E opened \in BOOLEAN : SaveMesh(opened)
    \/ LoadMeshNoFile
    \/ \E f \in FileSet, bN, bT \in BOOLEAN, g \in GarbageSet : LoadMesh(f, bN, bT, g)
    \/ Destroy
    \/ Construct

\* Assembly alone: BeginMesh, AddTriangle and End.
NextAssembly ==
    \/ \E n \in Capacities : BeginMesh(n)
    \/ \E withN, withT \in BOOLEAN : AddTriangleDropped(withN, withT)
    \/ \E tri \in TriangleSet, withN, withT \in BOOLEAN, e \in EpsSet, r \in RangeSet :
          AddTriangle(tri, withN, withT, e, r)
    \/ \E kept \in BOOLEAN : End(kept)

\* Every call chooses its own arguments.
Spec == Init /\ [][Next]_vars

\* Every call of a run has the same epsilon and channel presence and
\* searches every stored vertex.
SpecFull == InitFull /\ [][NextAssembly]_vars

\* Every call of a run has the same epsilon and channel presence and
\* nCheckRange = 0.
SpecZero == InitZero /\ [][NextAssembly]_vars

\* Every call of a run adds the same triangle with the same epsilon and
\* channel presence and its own nCheckRange.
SpecSame == InitSame /\ [][NextAssembly]_vars

-----------------------------------------------------------------------------
(* Properties *)

\* C1: between BeginMesh and End every index stored so far, pIndexes[k] for
\* 0 <= k < I, is smaller than V.
IndexValidity ==
    phase = "assembling" =>
        /\ Len(idx) = nNumIndexes
        /\ \A k \in 1..nNumIndexes : idx[k] >= 0 /\ idx[k] < nNumVerts

\* C1 happens: a batch holding an index that was appended and an index that
\* was emitted for a match.
IndexValidityWitness ==
    /\ phase = "assembling"
    /\ nNumVerts >= 2
    /\ \E a, b \in 1..nNumIndexes : a < b /\ idx[a] = idx[b]
    /\ \E a \in 1..nNumIndexes : idx[a] = nNumVerts - 1

\* C2: between BeginMesh and End, 0 <= V <= N_max and 0 <= I <= N_max.
CountsWithinCapacity ==
    phase = "assembling" =>
        /\ 0 <= nNumVerts /\ nNumVerts <= nMaxIndexes
        /\ 0 <= nNumIndexes /\ nNumIndexes <= nMaxIndexes

\* C3: between BeginMesh and End, I is a multiple of 3, whatever N_max is.
WholeTriangles ==
    phase = "assembling" => nNumIndexes % 3 = 0

\* C4: an AddTriangle call entered with I + 3 > N_max is dropped as a whole:
\* I, V, the indexes and the vertex arrays are what they were.
DroppedAsAWhole ==
    [][(phase = "assembling" /\ call'.op = "AddTriangle"
            /\ nNumIndexes + 3 > nMaxIndexes)
        => UNCHANGED <<nNumIndexes, nNumVerts, idx, verts, norms, texs>>]_vars

\* C5: an AddTriangle call entered with I + 3 <= N_max appends exactly three
\* indexes and between none and three vertices.
ThreeIndexesAppended ==
    [][(phase = "assembling" /\ call'.op = "AddTriangle"
            /\ nNumIndexes + 3 <= nMaxIndexes)
        => /\ nNumIndexes' = nNumIndexes + 3
           /\ Len(idx') = Len(idx) + 3
           /\ nNumVerts' >= nNumVerts /\ nNumVerts' <= nNumVerts + 3]_vars

\* Corners c and d are identical in position and in every channel the calls
\* of the run supply.
SameCorner(c, d) ==
    /\ Corners[c].pos = Corners[d].pos
    /\ profile.n => Corners[c].nrm = Corners[d].nrm
    /\ profile.t => Corners[c].tc = Corners[d].tc

\* Corners identical in position and every present channel have one index.
IdenticalCornersShareIndex ==
    \A a, b \in 1..Len(src) : SameCorner(src[a], src[b]) => idx[a] = idx[b]

\* C6, as amended: when every call has the same epsilon > 0, the same channel
\* presence and nCheckRange >= V, two corners identical in position and in
\* every present channel get the same index.
DedupIdentical ==
    (phase = "assembling" /\ profile.kind = "full" /\ profile.eps > 0)
        => IdenticalCornersShareIndex

\* C6 happens: a corner of a later call got the index of an identical corner
\* of the first call, next to other vertices.
DedupIdenticalWitness ==
    /\ phase = "assembling" /\ profile.kind = "full" /\ profile.eps > 0
    /\ nNumVerts >= 2
    /\ \E a \in 1..3, b \in 4..Len(src) :
           SameCorner(src[a], src[b]) /\ idx[a] = idx[b] /\ idx[a] > 0

\* C6, as stated: with epsilon = 0 and nCheckRange >= V on every call, two
\* corners identical in position and in every present channel get the same
\* index.
DedupIdenticalAtZero ==
    (phase = "assembling" /\ profile.kind = "full" /\ profile.eps = 0)
        => IdenticalCornersShareIndex

\* C7, as amended: with nCheckRange = 0 on every call, I + 3 <= N_max on
\* entry to every call and no triangle with two corners that match one
\* another, V = I = 3N after N triangles, for every epsilon.
NoDedupAtRangeZero ==
    (phase = "assembling" /\ profile.kind = "zero" /\ hist.zeroDistinct >= 0)
        => /\ nNumVerts = 3 * hist.zeroDistinct
           /\ nNumIndexes = 3 * hist.zeroDistinct

\* C7 happens: the second triangle's first corner is stored again although
\* the first triangle's first corner is the same vertex and epsilon > 0.
NoDedupAtRangeZeroWitness ==
    /\ phase = "assembling" /\ profile.kind = "zero" /\ profile.eps > 0
    /\ hist.zeroDistinct = 2
    /\ nNumVerts = 6
    /\ verts[4] = verts[1]
    /\ norms # <<>> => norms[4] = norms[1]
    /\ texs # <<>> => texs[4] = texs[1]

\* C7, as stated: with nCheckRange = 0 on every call and I + 3 <= N_max on
\* entry to every call, V = I = 3N after N triangles, for every choice of
\* corners and every epsilon.
NoDedupAtRangeZeroAnyCorners ==
    (phase = "assembling" /\ profile.kind = "zero" /\ hist.zeroCalls >= 0)
        => /\ nNumVerts = 3 * hist.zeroCalls
           /\ nNumIndexes = 3 * hist.zeroCalls

\* C8: within one batch a channel that is no longer held stays so: no
\* AddTriangle, End or SaveMesh brings hasN or hasT back.
ChannelMonotone ==
    [][(phase \in {"assembling", "finalized"}
            /\ call'.op \in {"AddTriangle", "End", "SaveMesh"})
        => /\ pNorms = "null" => pNorms' = "null"
           /\ pTexCoords = "null" => pTexCoords' = "null"]_vars

\* C8 happens: a call past the capacity guard supplied normals after the
\* normal channel had been released, and the channel is still released.
ChannelMonotoneWitness ==
    /\ phase = "assembling"
    /\ call.op = "AddTriangle" /\ call.nrm
    /\ pNorms = "null"
    /\ nNumIndexes > 0 /\ nNumIndexes < nMaxIndexes

\* C9, as amended: after every AddTriangle call that is entered with
\* I < N_max, a channel whose argument was absent is not held and its
\* storage is released.
AbsentChannelReleased ==
    [][(phase = "assembling" /\ call'.op = "AddTriangle"
            /\ nNumIndexes < nMaxIndexes)
        => /\ ~call'.nrm => (pNorms' = "null" /\ norms' = <<>>)
           /\ ~call'.tc => (pTexCoords' = "null" /\ texs' = <<>>)]_vars

\* C9 happens: a call past the capacity guard without normals and with
\* texture coordinates left the normal channel released and the other held.
AbsentChannelReleasedWitness ==
    /\ phase = "assembling"
    /\ call.op = "AddTriangle" /\ ~call.nrm /\ call.tc
    /\ pNorms = "null" /\ norms = <<>>
    /\ pTexCoords = "alloc" /\ texs # <<>>
    /\ nNumIndexes > 0 /\ nNumIndexes < nMaxIndexes

\* C9, as stated: after every AddTriangle call, whatever I and N_max are, a
\* channel whose argument was absent is not held and its storage is released.
AbsentChannelReleasedAlways ==
    [][(phase = "assembling" /\ call'.op = "AddTriangle")
        => /\ ~call'.nrm => (pNorms' = "null" /\ norms' = <<>>)
           /\ ~call'.tc => (pTexCoords' = "null" /\ texs' = <<>>)]_vars

\* C10: a batch loaded, with the channel flags of the saved batch, from the
\* file a successful SaveMesh wrote has the V, I, r and the uploaded index,
\* position, normal and texture-coordinate arrays of the saved batch.
RoundTrip ==
    (/\ phase = "finalized" /\ call.op = "LoadMesh" /\ call.ret
     /\ saved.valid /\ call.nrm = saved.n /\ call.tc = saved.t)
        => /\ nNumVerts = saved.V
           /\ nNumIndexes = saved.I
           /\ boundingSphereRadius = saved.r
           /\ gpu.i = saved.gpu.i /\ gpu.v = saved.gpu.v
           /\ gpu.n = saved.gpu.n /\ gpu.t = saved.gpu.t

\* The stream holds the whole header, I indexes and V positions.
RequiredComplete(f) ==
    /\ Len(f) >= 3
    /\ Len(f) >= 3 + f[1] + 3 * f[2]

\* Where the normals, if read, start in stream f.
OptionalStart(f) == 3 + f[1] + 3 * f[2]

\* C11: LoadMesh returns false when the file cannot be opened or the stream
\* ends before the header, the I indexes or the V positions are complete,
\* and SaveMesh returns false when the data was not written.
IOFailureReported ==
    /\ (call.op = "LoadMesh"
            /\ (phase = "constructed" \/ ~RequiredComplete(call.stream)))
        => ~call.ret
    /\ (call.op = "SaveMesh" /\ file = <<>>) => ~call.ret

\* C12: LoadMesh on a fresh batch with hasN true and a stream that holds the
\* whole header, indexes and positions but fewer than V normals returns true,
\* uploads no normal stream, and uploads the index stream with I and the
\* position stream with V elements; likewise for hasT and texture
\* coordinates.
ShortOptionalTolerated ==
    (call.op = "LoadMesh" /\ phase = "finalized" /\ RequiredComplete(call.stream))
        => LET f == call.stream
               nLeft == Len(f) - OptionalStart(f)
               tLeft == IF call.nrm
                        THEN (IF nLeft <= 3 * f[2] THEN 0 ELSE nLeft - 3 * f[2])
                        ELSE nLeft
               uploaded == /\ call.ret
                           /\ nNumIndexes = f[1] /\ nNumVerts = f[2]
                           /\ Len(gpu.i) = 1 /\ Len(gpu.i[1]) = f[1]
                           /\ gpu.i[1] = SubSeq(f, 4, 3 + f[1])
                           /\ Len(gpu.v) = 1 /\ Len(gpu.v[1]) = f[2]
           IN  /\ (call.nrm /\ nLeft < 3 * f[2])
                   => (uploaded /\ pNorms = "null" /\ gpu.n = <<>>)
               /\ (call.tc /\ tLeft < 2 * f[2])
                   => (uploaded /\ pTexCoords = "null" /\ gpu.t = <<>>)

\* C12 happens: normals were asked for, the stream had some but not all of
\* them, and the batch is loaded without them.
ShortOptionalToleratedWitness ==
    /\ call.op = "LoadMesh" /\ phase = "finalized" /\ call.ret
    /\ RequiredComplete(call.stream)
    /\ call.nrm
    /\ call.stream[2] > 0
    /\ Len(call.stream) > OptionalStart(call.stream)
    /\ Len(call.stream) < OptionalStart(call.stream) + 3 * call.stream[2]
    /\ pNorms = "null" /\ gpu.n = <<>>
    /\ Len(gpu.v[1]) = call.stream[2]

\* C13: a batch whose GPU handles End or LoadMesh created has them released
\* when it is destroyed.
HandlesReleased ==
    phase = "destroyed" => ~gpu.handles

\* C14: BeginMesh(N) on a batch that is being assembled, whatever was added
\* and whichever channel was released, leaves what BeginMesh(N) leaves on a
\* fresh batch: I = 0, V = 0, capacity N, every array allocated and empty;
\* and BeginMesh(N) right after BeginMesh(N) changes nothing.
ReBeginResets ==
    [][call'.op = "BeginMesh"
        => /\ phase' = "assembling"
           /\ nNumIndexes' = 0 /\ nNumVerts' = 0
           /\ pIndexes' = "alloc" /\ pVerts' = "alloc"
           /\ pNorms' = "alloc" /\ pTexCoords' = "alloc"
           /\ idx' = <<>> /\ verts' = <<>> /\ norms' = <<>> /\ texs' = <<>>
           /\ bMadeStuff' = FALSE /\ boundingSphereRadius' = 0 /\ gpu' = NoGpu
           /\ (call.op = "BeginMesh" /\ nMaxIndexes' = nMaxIndexes)
                  => UNCHANGED <<phase, nMaxIndexes, nNumIndexes, nNumVerts,
                                 bMadeStuff, boundingSphereRadius, pIndexes,
                                 pVerts, pNorms, pTexCoords, idx, verts, norms,
                                 texs, gpu, file>>]_vars

\* C14 happens: BeginMesh was called on a batch that had released a channel,
\* and the batch holds every channel again.
ReBeginResetsWitness ==
    /\ call.op = "BeginMesh" /\ call.prior = "released"
    /\ nMaxIndexes > 0
    /\ pNorms = "alloc" /\ pTexCoords = "alloc"
    /\ nNumIndexes = 0 /\ nNumVerts = 0

\* C15: End leaves V, I, hasN and hasT as they were, uploads the positions
\* (V elements) and the indexes (I elements) once each, the normals (V
\* elements) iff hasN and the texture coordinates (V elements) iff hasT, and
\* leaves no workspace array allocated.
EndHandsOff ==
    [][call'.op = "End"
        => /\ nNumVerts' = nNumVerts /\ nNumIndexes' = nNumIndexes
           /\ (pNorms' # "null") = (pNorms # "null")
           /\ (pTexCoords' # "null") = (pTexCoords # "null")
           /\ gpu'.v = Append(gpu.v, verts) /\ Len(verts) = nNumVerts
           /\ Len(gpu'.i) = Len(gpu.i) + 1
           /\ Len(gpu'.i[Len(gpu'.i)]) = nNumIndexes
           /\ gpu'.n = (IF pNorms # "null" THEN Append(gpu.n, norms) ELSE gpu.n)
           /\ pNorms # "null" => Len(norms) = nNumVerts
           /\ gpu'.t = (IF pTexCoords # "null" THEN Append(gpu.t, texs) ELSE gpu.t)
           /\ pTexCoords # "null" => Len(texs) = nNumVerts
           /\ Len(gpu'.v) = 1 /\ Len(gpu'.i) = 1
           /\ Len(gpu'.n) <= 1 /\ Len(gpu'.t) <= 1
           /\ {pIndexes', pVerts', pNorms', pTexCoords'} \subseteq {"used", "null"}]_vars

\* C15 happens: End on a batch with normals and without texture coordinates
\* that holds a shared vertex.
EndHandsOffWitness ==
    /\ phase = "finalized" /\ call.op = "End"
    /\ pNorms = "used" /\ pTexCoords = "null"
    /\ nNumVerts >= 2 /\ nNumIndexes > nNumVerts
    /\ Len(gpu.n) = 1 /\ Len(gpu.n[1]) = nNumVerts
    /\ gpu.t = <<>>
    /\ Len(gpu.i[1]) = nNumIndexes

\* The matching rule: stored vertex i is within epsilon of corner c in
\* position and in every channel held.
RuleMatches(w, i, c, eps, hasN, hasT) ==
    /\ PosClose(w.verts[i + 1], c.pos, eps)
    /\ hasN => PosClose(w.norms[i + 1], c.nrm, eps)
    /\ hasT => TexClose(w.texs[i + 1], c.tc, eps)

\* The rule for one corner: the least matching i in [start, V) is emitted,
\* and if there is none the corner is stored at V and V is emitted.
RuleCorner(w, c, eps, start, hasN, hasT) ==
    LET hits == {i \in start..(w.nV - 1) : RuleMatches(w, i, c, eps, hasN, hasT)}
    IN  IF hits # {}
        THEN [w EXCEPT !.idx = Append(@, Min(hits))]
        ELSE [w EXCEPT !.verts = Append(@, c.pos),
                       !.norms = IF hasN THEN Append(@, c.nrm) ELSE @,
                       !.texs = IF hasT THEN Append(@, c.tc) ELSE @,
                       !.idx = Append(@, w.nV),
                       !.nV = @ + 1]

\* The rule for the three corners, with start = max(0, V0 - range).
RuleTriangle(w0, tri, withN, eps, range, hasN, hasT) ==
    LET start == IF w0.nV - range > 0 THEN w0.nV - range ELSE 0
        w1 == RuleCorner(w0, Arg(tri[1], withN), eps, start, hasN, hasT)
        w2 == RuleCorner(w1, Arg(tri[2], withN), eps, start, hasN, hasT)
    IN  RuleCorner(w2, Arg(tri[3], withN), eps, start, hasN, hasT)

\* What the rule makes of the call that is this step.
RuleResult ==
    LET hasN == pNorms' # "null"
        hasT == pTexCoords' # "null"
    IN  RuleTriangle([verts |-> verts,
                      norms |-> IF hasN THEN norms ELSE <<>>,
                      texs |-> IF hasT THEN texs ELSE <<>>,
                      idx |-> idx, nV |-> nNumVerts],
                     call'.args[1], call'.nrm, call'.args[2], call'.args[3],
                     hasN, hasT)

\* The step leaves what the rule makes of it.
FollowsRule ==
    /\ idx' = RuleResult.idx /\ nNumIndexes' = Len(RuleResult.idx)
    /\ verts' = RuleResult.verts /\ nNumVerts' = RuleResult.nV
    /\ norms' = RuleResult.norms /\ texs' = RuleResult.texs

\* C16: every corner of an AddTriangle call entered with I + 3 <= N_max gets
\* the least index i in [max(0, V0 - range), V) whose vertex is within
\* epsilon of it in position and in every channel still held, and if there
\* is none it is stored at V, V is emitted and V grows by one.
FirstMatchWins ==
    [][(phase = "assembling" /\ call'.op = "AddTriangle" /\ call'.args # <<>>
            /\ nNumIndexes + 3 <= nMaxIndexes)
        => FollowsRule]_vars

\* The rule does hold of the calls whose nCheckRange is not negative.
FirstMatchWinsFromZero ==
    [][(phase = "assembling" /\ call'.op = "AddTriangle" /\ call'.args # <<>>
            /\ call'.args[3] >= 0 /\ nNumIndexes + 3 <= nMaxIndexes)
        => FollowsRule]_vars

\* The last three indexes of a sequence of indexes.
LastThree(s) == SubSeq(s, Len(s) - 2, Len(s))

\* This step adds again, with room and nCheckRange >= V, the triangle the
\* call before it added with the same epsilon > 0 and channel presence.
AddsAgain ==
    /\ phase = "assembling" /\ profile.kind = "same" /\ profile.eps > 0
    /\ call.op = "AddTriangle" /\ call.args # <<>> /\ call.args[3] >= 0
    /\ call'.op = "AddTriangle" /\ call'.args # <<>>
    /\ call'.args[1] = call.args[1] /\ call'.args[2] = call.args[2]
    /\ call'.nrm = call.nrm /\ call'.tc = call.tc
    /\ call'.args[3] >= nNumVerts
    /\ nNumIndexes + 3 <= nMaxIndexes

\* The step leaves V as it was and emits the three indexes emitted last.
SameAgain ==
    /\ nNumVerts' = nNumVerts
    /\ Len(idx') = Len(idx) + 3
    /\ Len(idx) >= 3
    /\ LastThree(idx') = LastThree(idx)

\* C17, as amended: when a triangle has just been added with epsilon > 0 and
\* nCheckRange >= V, adding it again with the same epsilon, the same channel
\* presence, nCheckRange >= V and I + 3 <= N_max leaves V unchanged and
\* emits the three indexes of the first addition.
ReAddIdempotent ==
    [][(AddsAgain /\ call.args[3] >= call.args[4]) => SameAgain]_vars

\* C17 happens: a batch of two vertices to which the same triangle was added
\* twice, the second time without a new vertex and with the same indexes.
ReAddIdempotentWitness ==
    /\ phase = "assembling" /\ profile.kind = "same" /\ profile.eps > 0
    /\ call.op = "AddTriangle" /\ call.args # <<>>
    /\ call.args[3] >= nNumVerts /\ call.args[4] = nNumVerts
    /\ nNumVerts = 2 /\ nNumIndexes = 6
    /\ SubSeq(idx, 1, 3) = SubSeq(idx, 4, 6)

\* C17, as stated: when a triangle has just been added with epsilon > 0,
\* whatever the nCheckRange of that addition, adding it again with the same
\* epsilon, the same channel presence, nCheckRange >= V and I + 3 <= N_max
\* leaves V unchanged and emits the three indexes of the first addition.
ReAddIdempotentAnyFirst ==
    [][AddsAgain => SameAgain]_vars

\* s is the beginning of t.
IsPrefix(s, t) == Len(s) <= Len(t) /\ SubSeq(t, 1, Len(s)) = s

\* C18: an AddTriangle call leaves the positions at 0..V-1 and the indexes
\* at 0..I-1 as they were, and the normals and texture coordinates at 0..V-1
\* while their channel is held; V and I do not decrease.
AppendOnly ==
    [][(phase = "assembling" /\ call'.op = "AddTriangle")
        => /\ IsPrefix(verts, verts') /\ IsPrefix(idx, idx')
           /\ pNorms' # "null" => IsPrefix(norms, norms')
           /\ pTexCoords' # "null" => IsPrefix(texs, texs')
           /\ nNumVerts' >= nNumVerts /\ nNumIndexes' >= nNumIndexes]_vars

\* C18 happens: a second call emitted a match and appended a vertex with its
\* normal behind the vertices of the first call.
AppendOnlyWitness ==
    /\ phase = "assembling" /\ call.op = "AddTriangle"
    /\ nNumIndexes > 3 /\ nNumIndexes <= nMaxIndexes
    /\ nNumVerts >= 2
    /\ pNorms # "null" /\ Len(norms) = nNumVerts
    /\ idx[nNumIndexes] = nNumVerts - 1
    /\ \A k \in 1..3 : idx[k] < nNumVerts - 1

\* The cell of the first index that refers to vertex j.
FirstUse(j) == Min({k \in 1..Len(idx) : idx[k] = j})

\* C19: between BeginMesh and End every stored vertex j < V occurs among the
\* indexes, the first occurrences of 0, 1, ..., V-1 are in increasing order,
\* and V <= I.
EveryVertexUsed ==
    phase = "assembling" =>
        /\ \A j \in 0..(nNumVerts - 1) : \E k \in 1..Len(idx) : idx[k] = j
        /\ \A j \in 1..(nNumVerts - 1) : FirstUse(j - 1) < FirstUse(j)
        /\ nNumVerts <= nNumIndexes

\* C19 happens: three vertices, one of them used twice.
EveryVertexUsedWitness ==
    /\ phase = "assembling"
    /\ nNumVerts = 3 /\ nNumIndexes = 4
    /\ idx[4] < 2

\* Stored vertices i and j match under the rule of the run.
StoredMatch(i, j) ==
    /\ PosClose(verts[i + 1], verts[j + 1], profile.eps)
    /\ pNorms # "null" => PosClose(norms[i + 1], norms[j + 1], profile.eps)
    /\ pTexCoords # "null" => TexClose(texs[i + 1], texs[j + 1], profile.eps)

\* C20: when every call of a batch has the same epsilon, the same channel
\* presence and nCheckRange >= V, no two stored vertices i < j < V match.
PairwiseNonMatching ==
    (phase = "assembling" /\ profile.kind = "full")
        => \A i, j \in 0..(nNumVerts - 1) : i < j => ~StoredMatch(i, j)

\* C20 happens: with epsilon > 0, two vertices are stored that share their
\* position and differ in a channel, and a corner was matched.
PairwiseNonMatchingWitness ==
    /\ phase = "assembling" /\ profile.kind = "full" /\ profile.eps > 0
    /\ nNumVerts >= 2 /\ nNumIndexes > nNumVerts
    /\ \E i, j \in 0..(nNumVerts - 1) : i < j /\ verts[i + 1] = verts[j + 1]

\* The four workspace pointers.
Workspace == <<pIndexes, pVerts, pNorms, pTexCoords>>

\* C21: over Begin -> AddTriangle* -> End -> destroy and over Load -> destroy
\* on a fresh batch, no workspace array is released twice.
ReleasedOnce == \A k \in 1..4 : Workspace[k] # "twice"

\* The part of C21 that the code keeps: a batch destroyed before any call,
\* while being assembled or after End has released each array it allocated
\* once, and holds none.
ReleasedOnceAfterEnd ==
    [][(phase' = "destroyed" /\ call.op # "LoadMesh")
        => \A k \in 1..4 : Workspace[k]' \in {"null", "used", "freed"}]_vars

\* The lifecycle Begin -> AddTriangle* -> End -> destroy has run, with a
\* channel released by AddTriangle on the way.
ReleasedOnceAfterEndWitness ==
    /\ phase = "destroyed"
    /\ pIndexes = "used" /\ pVerts = "used"
    /\ pNorms = "null" /\ pTexCoords = "used"

====
